---- MODULE Spec2Model ----
(***************************************************************************)
(* A model of the recon-simu hardware simulator (src/hardware_simulator.py)*)
(* and of the reconstructor's slope bookkeeping (src/reconstructor.py).    *)
(*                                                                         *)
(* Numbers.  numpy works in IEEE floating point, where every product is    *)
(* rounded.  The model keeps that: a real value v is held as the integer   *)
(* v*Q (fixed point, resolution 1/Q) and every product, quotient and       *)
(* square root is rounded down to that resolution.  Sums are exact.        *)
(*                                                                         *)
(* Matrices are records [nr, nc, m] (m[i][j], 1-based), so that a matrix   *)
(* with zero columns still knows its number of rows, as a numpy array      *)
(* does.  1-D arrays are sequences.  Python's None is the empty tuple and  *)
(* a present optional value k is <<k>>.                                    *)
(***************************************************************************)
EXTENDS Integers, Sequences, FiniteSets, TLC

VARIABLES
    cfg,      \* keyword arguments of PhaseScreen(...) and the kernel's output for them
    stream,   \* np.random.default_rng(cfg.seed): value j is stream[(j % 2) + 1]
    ps,       \* ps[i]: the i-th PhaseScreen instance built from cfg
    pupil,    \* the module-level pupil mask
    shwfs,    \* the SHWFS instance: its cached image views
    cog,      \* the ClassicCog instance: its threshold and calibration
    main,     \* the locals of the simulator's __main__ block
    shm,      \* the shared-memory channels the simulator writes
    ret       \* what the last call returned (or the error it raised)

scrVars == <<cfg, stream, ps>>
wfsVars == <<pupil, shwfs, cog>>
mainVars == <<main, shm>>
vars == <<cfg, stream, ps, pupil, shwfs, cog, main, shm, ret>>

---------------------------------------------------------------------------
(* Bounds of the model. *)

\* number of active pupil points of the PhaseScreen instances
NPts == 2
\* number of step() calls followed per instance
MaxSteps == 2
\* largest duration test_speed can measure, in clock ticks
MaxTime == 1

\* fixed-point resolution: the value 1.0
Q == 2 * 2

None == <<>>
Some(k) == <<k>>

---------------------------------------------------------------------------
(* Floating-point stand-ins. *)

Mul(a, b) == (a * b) \div Q

Div(a, b) == (a * Q) \div b

Sqrt(a) == CHOOSE r \in 0..(a + Q) : r * r <= a * Q /\ (r + 1) * (r + 1) > a * Q

\* v, evaluated once, handed to Op
With(v, Op(_)) == CHOOSE y \in {Op(x) : x \in {v}} : TRUE

RECURSIVE SumTo(_, _)
SumTo(f, n) == IF n = 0 THEN 0 ELSE f[n] + SumTo(f, n - 1)

\* the sequence <<F(1), ..., F(n)>>
RECURSIVE Listed(_, _)
Listed(f, n) == IF n = 0 THEN <<>> ELSE Append(Listed(f, n - 1), f[n])

Tab(n, F(_)) == Listed([i \in 1..n |-> F(i)], n)

Mat(nr, nc, F(_, _)) ==
    [nr |-> nr, nc |-> nc, m |-> Tab(nr, LAMBDA i : Tab(nc, LAMBDA j : F(i, j)))]

\* np.einsum("ij,jk->ik", A, B)
MatMul(A0, B0) ==
    With(<<A0, B0>>, LAMBDA ab :
        Mat(ab[1].nr, ab[2].nc,
            LAMBDA i, k : SumTo(Tab(ab[1].nc, LAMBDA j : Mul(ab[1].m[i][j], ab[2].m[j][k])),
                                ab[1].nc)))

Transpose(A0) ==
    With(A0, LAMBDA A : Mat(A.nc, A.nr, LAMBDA i, j : A.m[j][i]))

MatSub(A0, B0) ==
    With(<<A0, B0>>, LAMBDA ab :
        Mat(ab[1].nr, ab[1].nc, LAMBDA i, j : ab[1].m[i][j] - ab[2].m[i][j]))

\* a 1-D array as a one-column matrix and back
ColVec(x0) ==
    With(x0, LAMBDA x : Mat(Len(x), 1, LAMBDA i, j : x[i]))

AsVec(M0) ==
    With(M0, LAMBDA M : Tab(M.nr, LAMBDA i : M.m[i][1]))

VecAdd(x0, y0) ==
    With(<<x0, y0>>, LAMBDA xy : Tab(Len(xy[1]), LAMBDA i : xy[1][i] + xy[2][i]))

Diag(d0) ==
    With(d0, LAMBDA d : Mat(Len(d), Len(d), LAMBDA i, j : IF i = j THEN d[i] ELSE 0))

---------------------------------------------------------------------------
(* PhaseScreen._factorh and the library calls it makes. *)

Perms(n) == {p \in [1..n -> 1..n] : \A i, j \in 1..n : i # j => p[i] # p[j]}

\* ndarray.argsort(): the positions of v in ascending order of value
argsort(v) ==
    CHOOSE p \in Perms(Len(v)) :
        \A i, j \in 1..Len(v) :
            i < j => \/ v[p[i]] < v[p[j]]
                     \/ (v[p[i]] = v[p[j]] /\ p[i] < p[j])

\* np.linalg.eigh, for the diagonal symmetric matrices the model feeds it:
\* eigenvalues in ascending order, eigenvectors the matching unit vectors.
eigh(M0) ==
    With(M0, LAMBDA M :
        With(Tab(M.nr, LAMBDA i : M.m[i][i]), LAMBDA d :
            With(argsort(d), LAMBDA p :
                [vals |-> Tab(M.nr, LAMBDA k : d[p[k]]),
                 vecs |-> Mat(M.nr, M.nr, LAMBDA i, k : IF i = p[k] THEN Q ELSE 0)])))

\* the positions k with valid[k], ascending (boolean-mask indexing)
RECURSIVE MaskIdx(_, _)
MaskIdx(valid, n) ==
    IF n = 0 THEN <<>>
    ELSE IF valid[n] THEN Append(MaskIdx(valid, n - 1), n)
         ELSE MaskIdx(valid, n - 1)

\* Python's a[idx] on a sequence of length n: whether idx is in range, and
\* the 1-based position it names.
PyInRange(idx, n) == idx >= -n /\ idx < n

PyPos(idx, n) == IF idx < 0 THEN idx + n + 1 ELSE idx + 1

EmptyMat == [nr |-> 0, nc |-> 0, m |-> <<>>]

\* The modes _factorh keeps: valid = vals > thresh, or
\* valid = vals >= vals[vals.argsort()[-n_modes]].
ValidModes(vals, thresh, n_modes) ==
    IF n_modes = None
    THEN Tab(Len(vals), LAMBDA k : vals[k] > thresh)
    ELSE With(vals[argsort(vals)[PyPos(-n_modes[1], Len(vals))]], LAMBDA cut :
             Tab(Len(vals), LAMBDA k : vals[k] >= cut))

factorh(thresh, symmetric_matrix, n_modes) ==
    With(eigh(symmetric_matrix), LAMBDA e :
        IF n_modes # None /\ ~PyInRange(-n_modes[1], Len(e.vals))
        THEN [err |-> "IndexError", factor |-> EmptyMat, inv_factor |-> EmptyMat]
        ELSE With(MaskIdx(ValidModes(e.vals, thresh, n_modes), Len(e.vals)), LAMBDA sel :
                 [err |-> "none",
                  factor |-> Mat(Len(e.vals), Len(sel), LAMBDA i, j :
                                 Mul(e.vecs.m[i][sel[j]], Sqrt(e.vals[sel[j]]))),
                  inv_factor |-> Mat(Len(e.vals), Len(sel), LAMBDA i, j :
                                 Mul(e.vecs.m[i][sel[j]], Sqrt(Div(Q, e.vals[sel[j]]))))]))

---------------------------------------------------------------------------
(* PhaseScreen.StateMatrix *)

\* np.einsum("ij,j...->i...", A, x)
dot_classic(sm, x) == MatMul(sm.A, x)

\* np.einsum("ij,jk,k...->i...", ML, LT, x) along es_path_factored, which
\* was planned for a vector x: LT with x first, then ML with the result.
dot_factored(sm, x) == MatMul(sm.ML, MatMul(sm.LT, x))

\* self.dot(x): the bound method
dot(sm, x) == IF sm.dot = "factored" THEN dot_factored(sm, x) ELSE dot_classic(sm, x)

\* test_speed: the two wall-clock durations it measured, tf (t2-t1) around
\* dot_factored and tc (t3-t2) around dot_classic.  Both are divided by the
\* same ntests, which no comparison of the two depends on.
test_speed(sm, tc, tf) == [classic |-> tc, factored |-> tf]

\* the strategy __init__ binds from the benchmark's result
SelectDot(res) == IF res.classic > res.factored THEN "factored" ELSE "classic"

StateMatrixInit(cov_yx, inv_factor_xx, tc, tf) ==
    With(<<MatMul(cov_yx, inv_factor_xx), Transpose(inv_factor_xx)>>, LAMBDA f :
        With([ML |-> f[1], LT |-> f[2], A |-> MatMul(f[1], f[2]), dot |-> "unbound"],
             LAMBDA sm0 : [sm0 EXCEPT !.dot = SelectDot(test_speed(sm0, tc, tf))]))

---------------------------------------------------------------------------
(* PhaseScreen *)

\* rng.normal: the standard-normal values a draw can produce
NormVals == {-Q, Q}

\* self._covariance(xx, yy, xx, yy): the external kernel's value for the
\* configured pupil, r0 and L0 (cfg.cov_xx holds its diagonal)
sigma_xx(c) == Diag(c.cov_xx)

\* self.laminar * self._covariance(xx + wind*ittime, ..., xx, yy)
sigma_yx(c) == Diag(Tab(Len(c.cov_yx), LAMBDA i : Mul(c.laminar, c.cov_yx[i])))

\* sigma_xx - state_matrix.dot(state_matrix.dot(sigma_xx).T).T
sigma_vv(c, sm) ==
    MatSub(sigma_xx(c), Transpose(dot(sm, Transpose(dot(sm, sigma_xx(c))))))

Unbuilt ==
    [status |-> "unbuilt", sm |-> <<>>, chosen |-> "unbound", bench |-> <<>>,
     factor_xx |-> EmptyMat, factor_vv |-> EmptyMat,
     x |-> <<>>, pos |-> 0, nsteps |-> 0]

Failed(e) == [Unbuilt EXCEPT !.status = e]

\* The streams a seed can stand for: the generator is a function of its seed
\* alone; which values it yields is left open over a small family.
Streams == NormVals \X NormVals

\* rng.normal(size=k) on a generator that has produced pos values: the next
\* k values of the seed's stream strm.
Draw(strm, pos, k) == Tab(k, LAMBDA j : strm[((pos + j) % 2) + 1])

\* PhaseScreen.__init__, up to the initial draw: the instance, or the error
\* raised.  tc, tf are the durations the benchmark measures.
PhaseScreenInit(c, tc, tf) ==
    With(factorh(c.thresh, sigma_xx(c), c.xx_max), LAMBDA f1 :
        IF f1.err # "none" THEN Failed(f1.err)
        ELSE With(StateMatrixInit(sigma_yx(c), f1.inv_factor, tc, tf), LAMBDA sm :
                 With(factorh(c.thresh, sigma_vv(c, sm), c.vv_max), LAMBDA f2 :
                     IF f2.err # "none" THEN Failed(f2.err)
                     ELSE [status |-> "ok", sm |-> sm, chosen |-> sm.dot,
                           bench |-> test_speed(sm, tc, tf),
                           factor_xx |-> f1.factor, factor_vv |-> f2.factor,
                           x |-> <<>>, pos |-> 0, nsteps |-> 0])))

\* self.x = self.factor_xx @ self.rng.normal(size=self.factor_xx.shape[1])
InitialDraw(p, strm) ==
    [p EXCEPT !.x = AsVec(MatMul(p.factor_xx, ColVec(Draw(strm, 0, p.factor_xx.nc)))),
              !.pos = p.factor_xx.nc]

\* PhaseScreen.step
step(p, strm) ==
    With(Draw(strm, p.pos, p.factor_vv.nc), LAMBDA v :
        [p EXCEPT !.x = VecAdd(AsVec(dot(p.sm, ColVec(p.x))),
                               AsVec(MatMul(p.factor_vv, ColVec(v)))),
                  !.pos = p.pos + p.factor_vv.nc,
                  !.nsteps = p.nsteps + 1])

\* a test_speed that rebinds dot to whichever strategy it measured faster
AfterTestSpeedRebinding(p, res) == [p EXCEPT !.sm.dot = SelectDot(res)]

\* the instance once test_speed has returned: it assigns nothing to self
AfterTestSpeed(p, res) == p

---------------------------------------------------------------------------
(* Operations on PhaseScreen instances. *)

Construct(i) ==
    /\ ps[i].status = "unbuilt"
    /\ \E tc, tf \in 0..MaxTime :
         \E p \in {PhaseScreenInit(cfg, tc, tf)} :
             IF p.status # "ok"
             THEN /\ ps' = [ps EXCEPT ![i] = p]
                  /\ ret' = [op |-> "PhaseScreen", err |-> p.status]
                  /\ UNCHANGED stream
             ELSE /\ ps' = [ps EXCEPT ![i] = InitialDraw(p, stream)]
                  /\ ret' = [op |-> "PhaseScreen", err |-> "none"]
    /\ UNCHANGED <<cfg, stream, wfsVars, mainVars>>

Step(i) ==
    /\ ps[i].status = "ok"
    /\ ps[i].nsteps < MaxSteps
    /\ ps' = [ps EXCEPT ![i] = step(ps[i], stream)]
    /\ ret' = [op |-> "step", err |-> "none"]
    /\ UNCHANGED <<cfg, stream, wfsVars, mainVars>>

Dot(i) ==
    /\ ps[i].status = "ok"
    /\ \E x \in {Tab(Len(ps[i].x), LAMBDA j : Q)} :
           ret' = [op |-> "dot", err |-> "none", val |-> AsVec(dot(ps[i].sm, ColVec(x)))]
    /\ UNCHANGED <<cfg, stream, ps, wfsVars, mainVars>>

TestSpeed(i) ==
    /\ ps[i].status = "ok"
    /\ \E tc, tf \in 0..MaxTime :
         LET res == test_speed(ps[i].sm, tc, tf)
         IN  /\ ps' = [ps EXCEPT ![i] = AfterTestSpeed(ps[i], res)]
             /\ ret' = [op |-> "test_speed", err |-> "none", val |-> res]
    /\ UNCHANGED <<cfg, stream, wfsVars, mainVars>>

\* a direct call of self._factorh(symmetric_matrix, n_modes)
Factorh ==
    /\ \E d \in [1..NPts -> {Q, 4 * Q}], n_modes \in {None} \cup {Some(k) : k \in -1..(NPts + 1)} :
         ret' = [op |-> "_factorh", matrix |-> d, n_modes |-> n_modes,
                 val |-> factorh(cfg.thresh, Diag(d), n_modes)]
    /\ UNCHANGED <<cfg, stream, ps, wfsVars, mainVars>>

\* the keyword arguments followed when two instances are compared
ScreenCfgs ==
    [cov_xx : [1..NPts -> {Q, 4 * Q}], cov_yx : [1..NPts -> {Q}],
     laminar : {3}, thresh : {0}, xx_max : {None, Some(1)}, vv_max : {None},
     seed : {1234}]

\* the keyword arguments followed when the truncation policy is examined
FactorCfgs ==
    [cov_xx : [1..NPts -> {Q, 4 * Q}], cov_yx : [1..NPts -> {Q}],
     laminar : {3}, thresh : {0, 8 * Q},
     xx_max : {None} \cup {Some(k) : k \in -1..1},
     vv_max : {None, Some(0)},
     seed : {1234}]

IdleScreen == cfg = <<>> /\ stream = <<>> /\ ps = <<>>
IdleWfs == pupil = <<>> /\ shwfs = <<>> /\ cog = <<>>
IdleMain == main = <<>> /\ shm = <<>>
NoCall == [op |-> "none", err |-> "none"]

\* Two instances built from the same keyword arguments and seed.
InitScreen ==
    /\ cfg \in ScreenCfgs
    /\ stream \in Streams
    /\ ps = [i \in 1..2 |-> Unbuilt]
    /\ ret = NoCall
    /\ IdleWfs /\ IdleMain

NextScreen ==
    \/ \E i \in 1..2 : Construct(i)
    \/ \E i \in 1..2 : Step(i)

SpecScreen == InitScreen /\ [][NextScreen]_vars

\* One instance and the calls made on its state matrix.
NextOperator ==
    \/ Construct(1)
    \/ Step(1)
    \/ Dot(1)
    \/ TestSpeed(1)

SpecOperator == InitScreen /\ [][NextOperator]_vars

\* Construction and _factorh under every truncation policy.
InitFactor ==
    /\ cfg \in FactorCfgs
    /\ stream = <<Q, -Q>>
    /\ ps = [i \in 1..2 |-> Unbuilt]
    /\ ret = NoCall
    /\ IdleWfs /\ IdleMain

NextFactor ==
    \/ Construct(1)
    \/ Factorh

SpecFactor == InitFactor /\ [][NextFactor]_vars

---------------------------------------------------------------------------
(* Arrays of the sensor chain: [shape, data, src].  data is the array in   *)
(* C (row-major) order, as numpy stores it; src remembers which phase-     *)
(* screen state (number of steps taken) the array was computed from, or -1 *)
(* for an array handed in from outside.                                    *)

\* largest batch of images handed to cog directly
MaxBatch == 2

\* the simulator's geometry (64, 8 and 32 in __main__), scaled down: a
\* 2 x 2 pupil split into 2 x 2 subapertures of one pixel, each imaged on
\* 2 x 2 detector pixels
pup_width == 2
fovx == 2
nsubx == 2

\* SHWFS.subwidth
subwidth == pup_width \div nsubx

RECURSIVE Prod(_)
Prod(shape) == IF shape = <<>> THEN 1 ELSE Head(shape) * Prod(Tail(shape))

RECURSIVE Total(_)
Total(xs) == IF xs = <<>> THEN 0 ELSE Head(xs) + Total(Tail(xs))

\* numpy broadcasting of two shapes: the shorter is padded with 1 on the
\* left; dimensions must agree or one of them be 1.
Padded(shape, n) == Tab(n, LAMBDA k : IF k <= n - Len(shape) THEN 1 ELSE shape[k - (n - Len(shape))])

MaxLen(a, b) == IF Len(a) > Len(b) THEN Len(a) ELSE Len(b)

Broadcastable(a, b) ==
    \A k \in 1..MaxLen(a, b) :
        \/ Padded(a, MaxLen(a, b))[k] = Padded(b, MaxLen(a, b))[k]
        \/ Padded(a, MaxLen(a, b))[k] = 1
        \/ Padded(b, MaxLen(a, b))[k] = 1

BroadcastShape(a, b) ==
    Tab(MaxLen(a, b), LAMBDA k :
        IF Padded(a, MaxLen(a, b))[k] = 1 THEN Padded(b, MaxLen(a, b))[k]
        ELSE Padded(a, MaxLen(a, b))[k])

---------------------------------------------------------------------------
(* SHWFS *)

NoViews == [im_subaps |-> None, im_full |-> None]

\* the grid cell (row block i, column block j, 0-based) whose subaperture
\* is image number b (1-based) of _im_subaps: camp is reshaped to
\* (nsubx, subwidth, nsubx, subwidth), axes 1 and 2 swapped, and the result
\* flattened to (nsubx*nsubx, fovx, fovx) in C order, so b - 1 = i*nsubx + j.
CellOf(b) == <<(b - 1) \div nsubx, (b - 1) % nsubx>>

\* SHWFS.measure(phi), for subwidth = 1.  padded_width = max(2, fovx); the
\* shifted DFT cut to its first column has entries of modulus
\* 1/sqrt(padded_width), and so has dft2 = kron(dft, dft) with modulus
\* 1/padded_width: every detector pixel of a subaperture receives
\* |camp|^2 / padded_width^2, and |camp| is the pupil (the phase factor has
\* modulus 1).  Intensities are held in units of 1/padded_width^2.
\* pupil * exp(...) broadcasts the two shapes; the reshape then needs
\* exactly nsubx*subwidth*nsubx*subwidth elements.
measure(sh, pup, phi) ==
    IF ~Broadcastable(<<pup_width, pup_width>>, phi.shape)
    THEN [err |-> "ValueError", shwfs |-> sh]
    ELSE IF Prod(BroadcastShape(<<pup_width, pup_width>>, phi.shape))
                # nsubx * subwidth * nsubx * subwidth
    THEN [err |-> "ValueError", shwfs |-> sh]
    ELSE [err |-> "none",
          shwfs |->
            [im_subaps |->
               Some([shape |-> <<nsubx * nsubx, fovx, fovx>>,
                     data |-> Tab(nsubx * nsubx * fovx * fovx, LAMBDA k :
                                  IF pup[((k - 1) \div (fovx * fovx)) + 1] THEN 1 ELSE 0),
                     src |-> phi.src]),
             im_full |->
               Some([shape |-> <<nsubx * fovx, nsubx * fovx>>,
                     data |-> Tab(nsubx * fovx * nsubx * fovx, LAMBDA k :
                                  IF pup[(((k - 1) \div (nsubx * fovx)) \div fovx) * nsubx
                                         + (((k - 1) % (nsubx * fovx)) \div fovx) + 1]
                                  THEN 1 ELSE 0),
                     src |-> phi.src])]]

\* SHWFS.image and SHWFS.image_batched: a copy of the cached view
image(sh) == sh.im_full[1]

image_batched(sh) == sh.im_subaps[1]

---------------------------------------------------------------------------
(* ClassicCog.  Pixel coordinates are held in half pixels (x_span * 2), so *)
(* that they are integers; a centroid is the float num/den in that unit.   *)

\* the float a / b: numpy yields nan for 0/0 and a signed inf for a/0
FloatDiv(a, b) ==
    IF b # 0 THEN [kind |-> "finite", num |-> a, den |-> b]
    ELSE IF a = 0 THEN [kind |-> "nan", num |-> 0, den |-> 0]
    ELSE [kind |-> "inf", num |-> (IF a > 0 THEN 1 ELSE -1), den |-> 0]

\* one centroid of cog's result: the float, in pixels, and (for following
\* the value through the slope vector) the image and axis it belongs to
Centroid(f, b, axis) ==
    [kind |-> f.kind, num |-> f.num, den |-> f.den, unit |-> "pixel", img |-> b, axis |-> axis]

NewCog(npix, thresh) == [npix |-> npix, thresh |-> thresh, xy_mat |-> None, r_mat |-> None]

\* x_span = np.arange(npix) - npix/2 + 0.5, doubled; k is 1-based
x_span(npix, k) == 2 * (k - 1) - npix + 1

\* ClassicCog.calibrate: xy_mat[1] is xx.flatten(), xy_mat[2] is yy.flatten()
\* of the "xy" meshgrid, r_mat is all ones
calibrate(c) ==
    [c EXCEPT
       !.xy_mat = Some(<<Tab(c.npix * c.npix, LAMBDA k : x_span(c.npix, ((k - 1) % c.npix) + 1)),
                         Tab(c.npix * c.npix, LAMBDA k : x_span(c.npix, ((k - 1) \div c.npix) + 1))>>),
       !.r_mat = Some(<<Tab(c.npix * c.npix, LAMBDA k : 1), Tab(c.npix * c.npix, LAMBDA k : 1)>>)]

\* intensity[None, ...] for a single image
Batched(shape) == IF Len(shape) = 2 THEN <<1>> \o shape ELSE shape

\* intensity - thresh, negative residues set to 0 (when a threshold is set)
Thresholded(c, data) ==
    IF c.thresh = None THEN data
    ELSE Tab(Len(data), LAMBDA k : IF data[k] - c.thresh[1] < 0 THEN 0 ELSE data[k] - c.thresh[1])

\* image number b of a batch of images of m pixels each
ImageOf(data, m, b) == SubSeq(data, (b - 1) * m + 1, b * m)

\* np.einsum("jk,ik,jk->ij", r_mat, intensity, xy_mat)[b][j]
CogNum(c, img, j) ==
    Total(Tab(Len(img), LAMBDA k : c.r_mat[1][j][k] * img[k] * c.xy_mat[1][j][k]))

\* ClassicCog.cog(intensity): one row (x, y) per image.  An uncalibrated
\* centroider fails on self.es_path[0]; einsum fails when the flattened
\* image size differs from the calibrated npix*npix.
cogOf(c, intensity) ==
    IF c.r_mat = None THEN [err |-> "TypeError", val |-> None]
    ELSE IF Prod(Tail(Batched(intensity.shape))) # c.npix * c.npix
    THEN [err |-> "ValueError", val |-> None]
    ELSE With(Thresholded(c, intensity.data), LAMBDA w :
             [err |-> "none",
              val |-> Some([shape |-> <<Head(Batched(intensity.shape)), 2>>,
                            src |-> intensity.src,
                            rows |-> Tab(Head(Batched(intensity.shape)), LAMBDA b :
                               With(ImageOf(w, c.npix * c.npix, b), LAMBDA img :
                                   <<Centroid(FloatDiv(CogNum(c, img, 1), Total(img)), b, "x"),
                                     Centroid(FloatDiv(CogNum(c, img, 2), Total(img)), b, "y")>>))])])

---------------------------------------------------------------------------
(* Direct calls on the sensor and the centroider. *)

\* pupil masks, flattened in C order
Pupils == {<<TRUE, TRUE, TRUE, TRUE>>, <<FALSE, TRUE, TRUE, FALSE>>}

\* shapes of the phase maps handed to measure
PhiShapes ==
    {<<pup_width, pup_width>>, <<1, pup_width>>, <<pup_width, 1>>, <<pup_width>>, <<>>,
     <<1, pup_width, pup_width>>, <<pup_width + 1, pup_width + 1>>,
     <<pup_width, pup_width + 1>>, <<2 * pup_width, 2 * pup_width>>}

\* images of npix*npix = 4 pixels: dark, one bright pixel, flat, negative, mixed
Palette ==
    {<<0, 0, 0, 0>>, <<2, 0, 0, 0>>, <<0, 0, 0, 2>>, <<1, 1, 1, 1>>,
     <<-1, -1, -1, -1>>, <<1, -1, 0, 0>>, <<2, -1, -1, 1>>}

RECURSIVE Flat(_)
Flat(imgs) == IF imgs = <<>> THEN <<>> ELSE Head(imgs) \o Flat(Tail(imgs))

\* the arrays handed to cog: single images and batches of the calibrated
\* size, and arrays whose images have other side lengths
Intensities ==
    {[shape |-> <<fovx, fovx>>, data |-> img, src |-> -1] : img \in Palette}
    \cup {[shape |-> <<1, 4>>, data |-> img, src |-> -1] : img \in Palette}
    \cup {[shape |-> <<1, 3>>, data |-> <<1, 1, 1>>, src |-> -1],
          [shape |-> <<3, 3>>, data |-> <<1, 1, 1, 1, 1, 1, 1, 1, 1>>, src |-> -1],
          [shape |-> <<1, 4, 1>>, data |-> <<1, 1, 1, 1>>, src |-> -1]}
    \cup UNION {{[shape |-> <<n, fovx, fovx>>, data |-> Flat(imgs), src |-> -1] :
                    imgs \in [1..n -> Palette]} : n \in 1..MaxBatch}

Calibrate ==
    /\ cog' = calibrate(cog)
    /\ ret' = [op |-> "calibrate", err |-> "none"]
    /\ UNCHANGED <<pupil, shwfs, scrVars, mainVars>>

Measure ==
    /\ \E shape \in PhiShapes :
         \E r \in {measure(shwfs, pupil, [shape |-> shape, src |-> -1])} :
            /\ shwfs' = r.shwfs
            /\ ret' = [op |-> "measure", err |-> r.err, arg |-> shape, before |-> shwfs]
    /\ UNCHANGED <<pupil, cog, scrVars, mainVars>>

Cog ==
    /\ \E intensity \in Intensities :
         \E r \in {cogOf(cog, intensity)} :
            ret' = [op |-> "cog", err |-> r.err, arg |-> intensity, val |-> r.val]
    /\ UNCHANGED <<pupil, shwfs, cog, scrVars, mainVars>>

\* A constructed SHWFS and a constructed, not yet calibrated, ClassicCog.
InitSensor ==
    /\ pupil \in Pupils
    /\ shwfs = NoViews
    /\ cog \in {NewCog(fovx, th) : th \in {None, Some(0), Some(1)}}
    /\ ret = NoCall
    /\ IdleScreen /\ IdleMain

NextSensor ==
    \/ Calibrate
    \/ Measure
    \/ Cog

SpecSensor == InitSensor /\ [][NextSensor]_vars

---------------------------------------------------------------------------
(* The simulator's __main__ block and the reconstructor's start-up. *)

\* number of TRUE entries among the first k of a mask
RECURSIVE Rank(_, _)
Rank(mask, k) == IF k = 0 THEN 0 ELSE Rank(mask, k - 1) + (IF mask[k] THEN 1 ELSE 0)

\* PhaseScreen.phase: x scattered onto the pupil grid, zero elsewhere
phase(p, pup) ==
    [shape |-> <<pup_width, pup_width>>,
     data |-> Tab(Len(pup), LAMBDA k : IF pup[k] THEN p.x[Rank(pup, k)] ELSE 0),
     src |-> p.nsteps]

\* the keyword arguments __main__ passes, for the kernel's values on pup:
\* every point has the same variance and the same one-step covariance
MainCfg(pup) ==
    [cov_xx |-> Tab(Rank(pup, Len(pup)), LAMBDA i : 4 * Q),
     cov_yx |-> Tab(Rank(pup, Len(pup)), LAMBDA i : Q),
     laminar |-> 3, thresh |-> 0, xx_max |-> Some(1), vv_max |-> None, seed |-> 1234]

\* shwfs.image_batched.sum(axis=(1,2))
Flux(batch) ==
    Tab(batch.shape[1], LAMBDA b : Total(ImageOf(batch.data, batch.shape[2] * batch.shape[3], b)))

RECURSIVE MaxOf(_)
MaxOf(xs) ==
    IF Len(xs) = 1 THEN xs[1]
    ELSE IF Head(xs) > MaxOf(Tail(xs)) THEN Head(xs) ELSE MaxOf(Tail(xs))

\* valid = flux > (0.9*flux.max())
ValidMask(flux) == With(MaxOf(flux), LAMBDA mx : Tab(Len(flux), LAMBDA b : 10 * flux[b] > 9 * mx))

\* slopes interleaved image by image: rows.flatten() without the transpose
SlopeVectorInterleaved(rows, valid) ==
    With(MaskIdx(valid, Len(valid)), LAMBDA sel :
        Tab(2 * Len(sel), LAMBDA k : rows[sel[(k + 1) \div 2]][2 - (k % 2)]))

\* cog.cog(...)[valid].T.flatten(): the rows of the valid images in order of
\* their index, transposed and flattened
SlopeVector(rows, valid) ==
    With(MaskIdx(valid, Len(valid)), LAMBDA sel :
        Tab(2 * Len(sel), LAMBDA k :
            IF k <= Len(sel) THEN rows[sel[k]][1] ELSE rows[sel[k - Len(sel)]][2]))

\* slopes *= shwfs.pixel_scale
Scaled(slopes) == Tab(Len(slopes), LAMBDA k : [slopes[k] EXCEPT !.unit = "arcsec"])

\* reconstructor: x_valid[valid==1] and y_valid[valid==1] of the "xy"
\* meshgrid of np.arange(nsubx), from the mask read off the channel
x_valid(mask) ==
    With(MaskIdx(Tab(Len(mask), LAMBDA f : mask[f] = 1), Len(mask)), LAMBDA sel :
        Tab(Len(sel), LAMBDA k : (sel[k] - 1) % nsubx))

y_valid(mask) ==
    With(MaskIdx(Tab(Len(mask), LAMBDA f : mask[f] = 1), Len(mask)), LAMBDA sel :
        Tab(Len(sel), LAMBDA k : (sel[k] - 1) \div nsubx))

\* what a channel holds after set_data: the array, and (for the claims) the
\* loop iteration that wrote it and the steps the screen had taken by then
Written(array, m, p) == Some([array |-> array, frame |-> m.frame, stepped |-> p.nsteps])

\* a measure that refreshes only the batched view once both views exist
measureKeepingFull(sh, pup, phi) ==
    With(measure(NoViews, pup, phi), LAMBDA r :
        IF r.err = "none" /\ sh.im_full # None
        THEN [r EXCEPT !.shwfs.im_full = sh.im_full]
        ELSE [r EXCEPT !.shwfs = IF r.err = "none" THEN r.shwfs ELSE sh])

\* shwfs.measure(phi) as __main__ calls it
mainMeasure(sh, pup, phi) == measure(sh, pup, phi)

\* lines 287-329: everything before the loop
Startup ==
    /\ main.pc = "start"
    /\ \E tc, tf \in 0..MaxTime :
         \E p0 \in {PhaseScreenInit(cfg, tc, tf)} :
           IF p0.status # "ok"
           THEN /\ ps' = [ps EXCEPT ![1] = p0]
                /\ main' = [main EXCEPT !.pc = "crashed"]
                /\ UNCHANGED <<shwfs, cog, shm>>
           ELSE \E p \in {InitialDraw(p0, stream)} :
                \E r \in {mainMeasure(NoViews, pupil, phase(p, pupil))} :
                \E c \in {calibrate(NewCog(fovx, Some(0)))} :
                \E valid \in {ValidMask(Flux(image_batched(r.shwfs)))} :
                  /\ ps' = [ps EXCEPT ![1] = p]
                  /\ shwfs' = r.shwfs
                  /\ cog' = c
                  /\ main' = [pc |-> "step", frame |-> 0, valid |-> valid,
                              phi |-> phase(p, pupil),
                              slopes |-> cogOf(c, image_batched(r.shwfs)).val[1].rows]
                  /\ shm' = [shm EXCEPT !.valid =
                               Some([shape |-> <<nsubx, nsubx>>,
                                     data |-> Tab(Len(valid), LAMBDA f : IF valid[f] THEN 1 ELSE 0)])]
    /\ ret' = [op |-> "startup", err |-> "none"]
    /\ UNCHANGED <<cfg, stream, pupil>>

\* line 331: phasescreen.step()
LoopStep ==
    /\ main.pc = "step"
    /\ ps[1].nsteps < MaxSteps
    /\ ps' = [ps EXCEPT ![1] = step(ps[1], stream)]
    /\ main' = [main EXCEPT !.pc = "phase", !.frame = main.frame + 1]
    /\ ret' = [op |-> "step", err |-> "none"]
    /\ UNCHANGED <<cfg, stream, wfsVars, shm>>

\* line 332: phi = phasescreen.phase
LoopPhase ==
    /\ main.pc = "phase"
    /\ main' = [main EXCEPT !.pc = "measure", !.phi = phase(ps[1], pupil)]
    /\ ret' = [op |-> "phase", err |-> "none"]
    /\ UNCHANGED <<scrVars, wfsVars, shm>>

\* line 333: shwfs.measure(phi)
LoopMeasure ==
    /\ main.pc = "measure"
    /\ \E r \in {mainMeasure(shwfs, pupil, main.phi)} :
         /\ shwfs' = r.shwfs
         /\ main' = [main EXCEPT !.pc = IF r.err = "none" THEN "cog" ELSE "crashed"]
         /\ ret' = [op |-> "measure", err |-> r.err]
    /\ UNCHANGED <<scrVars, pupil, cog, shm>>

\* lines 334-335: the slope vector
LoopCog ==
    /\ main.pc = "cog"
    /\ \E r \in {cogOf(cog, image_batched(shwfs))} :
         /\ main' = [main EXCEPT !.pc = "pub_phase",
                                 !.slopes = [data |-> Scaled(SlopeVector(r.val[1].rows, main.valid)),
                                             src |-> r.val[1].src]]
         /\ ret' = [op |-> "cog", err |-> r.err]
    /\ UNCHANGED <<scrVars, wfsVars, shm>>

\* line 336: shm_phase.set_data(phi)
PubPhase ==
    /\ main.pc = "pub_phase"
    /\ shm' = [shm EXCEPT !.phase = Written(main.phi, main, ps[1])]
    /\ main' = [main EXCEPT !.pc = "pub_slopes"]
    /\ ret' = [op |-> "set_data", err |-> "none"]
    /\ UNCHANGED <<scrVars, wfsVars>>

\* line 337: shm_slopes.set_data(slopes)
PubSlopes ==
    /\ main.pc = "pub_slopes"
    /\ shm' = [shm EXCEPT !.slopes = Written(main.slopes, main, ps[1])]
    /\ main' = [main EXCEPT !.pc = "pub_wfsim"]
    /\ ret' = [op |-> "set_data", err |-> "none"]
    /\ UNCHANGED <<scrVars, wfsVars>>

\* line 338: shm_wfsim.set_data(shwfs.image.astype(np.float32))
PubWfsim ==
    /\ main.pc = "pub_wfsim"
    /\ shm' = [shm EXCEPT !.wfsim = Written(image(shwfs), main, ps[1])]
    /\ main' = [main EXCEPT !.pc = "step"]
    /\ ret' = [op |-> "set_data", err |-> "none"]
    /\ UNCHANGED <<scrVars, wfsVars>>

\* most points a pupil of the simulator has
MaxPupil == 2

\* pupil masks of the simulator, flattened in C order
MainPupils == {p \in [1..(pup_width * pup_width) -> BOOLEAN] : Rank(p, Len(p)) <= MaxPupil}

InitMain ==
    /\ pupil \in MainPupils
    /\ cfg = MainCfg(pupil)
    /\ stream \in Streams
    /\ ps = [i \in 1..2 |-> Unbuilt]
    /\ shwfs = NoViews
    /\ cog = NewCog(fovx, Some(0))
    /\ main = [pc |-> "start", frame |-> 0, valid |-> <<>>, phi |-> None, slopes |-> None]
    /\ shm = [phase |-> None, slopes |-> None, valid |-> None, wfsim |-> None]
    /\ ret = NoCall

NextMain ==
    \/ Startup
    \/ LoopStep
    \/ LoopPhase
    \/ LoopMeasure
    \/ LoopCog
    \/ PubPhase
    \/ PubSlopes
    \/ PubWfsim

SpecMain == InitMain /\ [][NextMain]_vars

---------------------------------------------------------------------------
(* Claims about the truncation policy (SpecFactor). *)

Built(i) == ps[i].status = "ok"

\* the eigenvalues of the matrix handed to the last _factorh call
RetVals == eigh(Diag(ret.matrix)).vals

\* C1: under the threshold policy, factoring a matrix none of whose
\* eigenvalues exceeds the threshold ends in an error, for a direct call of
\* _factorh and for construction, and never yields zero columns.
C1_EmptyFactorRejected ==
    /\ (/\ ret.op = "_factorh"
        /\ ret.n_modes = None
        /\ \A k \in 1..NPts : RetVals[k] <= cfg.thresh)
       => ret.val.err # "none"
    /\ (Built(1) /\ cfg.xx_max = None) => ps[1].factor_xx.nc > 0
    /\ (Built(1) /\ cfg.vv_max = None) => ps[1].factor_vv.nc > 0

\* C2: under the fixed-mode-count policy a mode count of 0 or less is
\* rejected with an error, by _factorh and by construction.
C2_NonPositiveCountRejected ==
    /\ (ret.op = "_factorh" /\ ret.n_modes # None /\ ret.n_modes[1] <= 0)
       => ret.val.err # "none"
    /\ (cfg.xx_max # None /\ cfg.xx_max[1] <= 0) => ~Built(1)
    /\ (cfg.vv_max # None /\ cfg.vv_max[1] <= 0) => ~Built(1)

\* C8: with 1 <= K <= n, _factorh returns exactly K columns in the factor
\* and in the inverse factor, those of the K largest eigenvalues, whatever
\* the threshold and whatever the spectrum.
C8_ExactlyTopK ==
    (ret.op = "_factorh" /\ ret.n_modes # None
        /\ ret.n_modes[1] >= 1 /\ ret.n_modes[1] <= NPts)
    => /\ ret.val.err = "none"
       /\ ret.val.factor.nc = ret.n_modes[1]
       /\ ret.val.inv_factor.nc = ret.n_modes[1]
       /\ \A j \in 1..ret.val.factor.nc :
            \E i \in 1..NPts :
                ret.val.factor.m[i][j] = Sqrt(RetVals[NPts - ret.val.factor.nc + j])

---------------------------------------------------------------------------
(* Claims about two instances built alike (SpecScreen). *)

\* C5: two instances built from the same keyword arguments and seed and
\* stepped the same number of times hold the same state vector, whichever
\* strategy each one bound.
C5_SameSeedSameState ==
    (Built(1) /\ Built(2) /\ ps[1].nsteps = ps[2].nsteps) => ps[1].x = ps[2].x

\* C9: two constructions from the same inputs bind the same strategy, and
\* the one bound is the one the benchmark measured faster (factored exactly
\* when classic was measured slower).
C9_SelectionDeterministic ==
    /\ \A i \in 1..2 :
         Built(i) => (ps[i].sm.dot = "factored" <=> ps[i].bench.classic > ps[i].bench.factored)
    /\ (Built(1) /\ Built(2)) => ps[1].sm.dot = ps[2].sm.dot

---------------------------------------------------------------------------
(* Claims about one state matrix (SpecOperator). *)

\* C6: once the constructor has returned, dot is bound to exactly one of the
\* two strategies, and after any dot(), test_speed() and step() calls it is
\* still the one chosen at construction.
C6_StrategyFrozen ==
    Built(1) => /\ ps[1].sm.dot \in {"classic", "factored"}
                /\ ps[1].sm.dot = ps[1].chosen

\* a later benchmark measured the other strategy faster, after every step
C6_Witness ==
    /\ Built(1)
    /\ ps[1].nsteps = MaxSteps
    /\ ret.op = "test_speed"
    /\ SelectDot(ret.val) # ps[1].chosen

---------------------------------------------------------------------------
(* Claims about direct calls on the sensor and the centroider (SpecSensor). *)

\* the weights of image b of the last cog call, after thresholding
RetWeights(b) == ImageOf(Thresholded(cog, ret.arg.data), cog.npix * cog.npix, b)

IsNaN(f) == f.kind = "nan"

\* C3: cog returns one (x, y) row per image; an image whose total weight is
\* zero (or negative, when no threshold is set) gets NaN on both axes, and
\* every other image its ordinary numerator over denominator.
C3_ZeroFluxFlagged ==
    (ret.op = "cog" /\ cog.r_mat # None
        /\ Tail(Batched(ret.arg.shape)) = <<cog.npix, cog.npix>>)
    => /\ ret.err = "none"
       /\ Len(ret.val[1].rows) = Head(Batched(ret.arg.shape))
       /\ \A b \in 1..Head(Batched(ret.arg.shape)) :
            IF Total(RetWeights(b)) = 0 \/ (cog.thresh = None /\ Total(RetWeights(b)) < 0)
            THEN IsNaN(ret.val[1].rows[b][1]) /\ IsNaN(ret.val[1].rows[b][2])
            ELSE \A j \in 1..2 :
                   /\ ret.val[1].rows[b][j].kind = "finite"
                   /\ ret.val[1].rows[b][j].num = CogNum(cog, RetWeights(b), j)
                   /\ ret.val[1].rows[b][j].den = Total(RetWeights(b))

\* C4: a phase map whose shape is not the pupil's, and images whose side
\* length is not npix, end in an error, and the failed call leaves the
\* sensor's cached views unchanged.
C4_ShapeMismatchRejected ==
    /\ (ret.op = "measure" /\ ret.arg # <<pup_width, pup_width>>)
       => (ret.err # "none" /\ shwfs = ret.before)
    /\ (ret.op = "cog" /\ Tail(Batched(ret.arg.shape)) # <<cog.npix, cog.npix>>)
       => ret.err # "none"

---------------------------------------------------------------------------
(* Claims about the simulator's loop (SpecMain). *)

\* the slope vector on the channel, and the mask the reconstructor reads
PubSlopeData == shm.slopes[1].array.data

PubMask == shm.valid[1].data

NValid == Total(PubMask)

\* the valid cells <<row, column>> of the mask in column-major order
RECURSIVE ColumnMajor(_, _)
ColumnMajor(mask, f) ==
    IF f = 0 THEN <<>>
    ELSE IF mask[((f - 1) % nsubx) * nsubx + ((f - 1) \div nsubx) + 1] = 1
         THEN Append(ColumnMajor(mask, f - 1), <<(f - 1) % nsubx, (f - 1) \div nsubx>>)
         ELSE ColumnMajor(mask, f - 1)

\* a published slope vector has 2 * NValid entries, all x-centroids first,
\* then all y-centroids, and entry k of each half comes from the
\* subaperture the reconstructor's lists name
SlopesPaired ==
    /\ Len(PubSlopeData) = 2 * NValid
    /\ \A k \in 1..NValid :
         /\ PubSlopeData[k].axis = "x"
         /\ PubSlopeData[NValid + k].axis = "y"
         /\ CellOf(PubSlopeData[k].img) = <<y_valid(PubMask)[k], x_valid(PubMask)[k]>>
         /\ CellOf(PubSlopeData[NValid + k].img) = <<y_valid(PubMask)[k], x_valid(PubMask)[k]>>

\* C7 as stated: the published slope vector is paired as above and lists
\* the valid subapertures in column-major order of the mask.
C7_ColumnMajor ==
    shm.slopes # None
    => /\ SlopesPaired
       /\ \A k \in 1..NValid :
            CellOf(PubSlopeData[k].img) = ColumnMajor(PubMask, nsubx * nsubx)[k]

\* C7, amended: the published slope vector is paired as above and lists the
\* valid subapertures in row-major (C) order of the mask.
C7_RowMajor ==
    shm.slopes # None
    => /\ SlopesPaired
       /\ \A k \in 1..NValid :
            PubSlopeData[k].img = MaskIdx(Tab(Len(PubMask), LAMBDA f : PubMask[f] = 1), Len(PubMask))[k]

\* slopes were published for a mask whose two orders differ
C7_Witness ==
    /\ shm.slopes # None
    /\ PubMask = <<0, 1, 1, 0>>
    /\ Len(PubSlopeData) = 4

\* C10: every iteration takes exactly one step, and what iteration k writes
\* to the phase, slope and image channels was computed from the state after
\* the k-th step, which had not been stepped again when it was written.
C10_FrameConsistent ==
    /\ main.pc \notin {"start", "crashed"} => ps[1].nsteps = main.frame
    /\ \A ch \in {shm.phase, shm.slopes, shm.wfsim} :
         ch # None => /\ ch[1].array.src = ch[1].frame
                      /\ ch[1].stepped = ch[1].frame
                      /\ ch[1].frame >= 1

\* the last iteration has published all three channels
C10_Witness ==
    /\ main.pc = "step"
    /\ main.frame = MaxSteps
    /\ shm.phase # None /\ shm.slopes # None /\ shm.wfsim # None
    /\ shm.wfsim[1].array.src = MaxSteps

====
